---- MODULE Spec2Model ----
(***************************************************************************)
(* Model of two parts of NiftyMIC:                                         *)
(*   - bin/reconstructVolumeFromSlices.py, the driver script that reads    *)
(*     the stacks, runs the TikhonovSolver and, depending on reg_type and  *)
(*     tv_solver, an ADMMSolver or PrimalDualSolver seeded by it;          *)
(*   - src/py/preprocessing/N4BiasFieldCorrection.py, the wrapper around   *)
(*     the external runN4BiasFieldCorrectionImageFilter executable.        *)
(* The driver is a straight-line script: one action per statement, with    *)
(* pc the position of the script. Python objects (Stack) live in a heap    *)
(* so that aliasing between the driver's variables and the solvers'        *)
(* reconstruction is visible.                                              *)
(***************************************************************************)
EXTENDS Integers, Sequences, FiniteSets, TLC

\* ------------------------------------------------------------------ bounds
\* largest number of stacks the data reader returns
MaxStacks == 2

\* number of distinct Stack objects a client hands to N4BiasFieldCorrection
NumN4Stacks == 3

VARIABLES
    \* ---- driver: parsed arguments (fixed during a run)
    dir_input,              \* TRUE iff --dir-input was given
    filenames,              \* TRUE iff --filenames was given
    reconstruction_space,   \* "none" | "ok" (readable file) | "bad" (unreadable)
    target_stack_index,
    reg_type,
    tv_solver,
    \* ---- driver: environment
    n_read,                 \* number of stacks the reader will return
    getter_copies,          \* TRUE iff Solver.get_reconstruction() returns a copy
    \* ---- driver: program state
    pc,
    err,
    data_reader,
    stacks,                 \* sequence of heap ids, or <<>> before get_stacks()
    heap,                   \* sequence of Stack objects; the id is the index
    recon0,
    SRR0,
    SRR,
    recon,
    recons,
    written,                \* files written by Stack.write()
    trace,                  \* calls made so far, in order
    \* ---- N4BiasFieldCorrection object and its surroundings
    n4_stack,               \* self._stack: 0 is None, else an id in n4_objs
    n4_use_mask,            \* self._use_mask
    n4_stack_corrected,     \* self._stack_corrected
    n4_dir,                 \* files in self._dir_tmp
    n4_objs,                \* the clients' Stack objects
    n4_result,              \* how the last method call ended
    n4_got,                 \* value returned by the last getter call
    n4_log,                 \* what the last run_bias_field_correction() did
    n4_last_ok              \* stack set at the most recent successful run

drv_vars == <<dir_input, filenames, reconstruction_space, target_stack_index,
              reg_type, tv_solver, n_read, getter_copies, pc, err,
              data_reader, stacks, heap, recon0, SRR0, SRR, recon, recons,
              written, trace>>

n4_vars == <<n4_stack, n4_use_mask, n4_stack_corrected, n4_dir, n4_objs,
             n4_result, n4_got, n4_log, n4_last_ok>>

vars == <<drv_vars, n4_vars>>

args == <<dir_input, filenames, reconstruction_space, target_stack_index,
          reg_type, tv_solver, n_read, getter_copies>>

\* ------------------------------------------------------------ driver model
RegTypes == {"TK1", "TV", "huber"}

TvSolvers == {"ADMM", "PD"}

NoSolver == [kind |-> "none", reg_type |-> "none", state |-> "none",
             recon |-> 0, statistics |-> FALSE, printed |-> FALSE]

\* filename of the i-th input stack
StackFilename(i) == [pre |-> "stack", tag |-> ToString(i)]

\* Solver.get_setting_specific_filename(): encodes the solver configuration
SettingSpecificFilename(s) == [pre |-> s.kind, tag |-> s.reg_type]

NoValue == [content |-> "", filename |-> [pre |-> "", tag |-> ""]]

\* a call of the script: the operation, the object it is called on or made
\* for, the Stack it concerns and, for calls that yield a Stack, its value
EventV(op, who, obj, val) == [op |-> op, who |-> who, obj |-> obj, val |-> val]

Event(op, who, obj) == EventV(op, who, obj, NoValue)

\* Stack.from_stack(): a new object with the image and filename of the old
FromStack(h, id) == Append(h, h[id])

\* Stack.set_filename()
SetFilename(h, id, fn) == [h EXCEPT ![id].filename = fn]

\* Solver.run_reconstruction(): the solver updates the Stack it holds
RunReconstruction(h, s) == [h EXCEPT ![s.recon].content = s.kind]

\* Solver.get_reconstruction(): the held Stack itself, or a copy of it
GetReconstructionHeap(h, s) == IF getter_copies THEN FromStack(h, s.recon) ELSE h

GetReconstructionId(h, s) == IF getter_copies THEN Len(h) + 1 ELSE s.recon

\* no N4BiasFieldCorrection object is in use while the script runs
N4Idle ==
    /\ n4_stack = 0 /\ n4_use_mask = TRUE
    /\ n4_stack_corrected = [image |-> [src |-> 0, corrected |-> FALSE],
                             mask |-> 0, filename |-> ""]
    /\ n4_dir = {} /\ n4_objs = <<>> /\ n4_result = "constructed"
    /\ n4_got = n4_stack_corrected /\ n4_log = <<>> /\ n4_last_ok = 0

InitDriver ==
    /\ N4Idle
    /\ dir_input \in BOOLEAN
    /\ filenames \in BOOLEAN
    /\ reconstruction_space \in {"none", "ok", "bad"}
    /\ target_stack_index \in 0..MaxStacks
    /\ reg_type \in RegTypes
    /\ tv_solver \in TvSolvers
    /\ n_read \in 0..MaxStacks
    /\ getter_copies \in BOOLEAN
    /\ pc = "read_input"
    /\ err = "none"
    /\ data_reader = "none"
    /\ stacks = <<>>
    /\ heap = <<>>
    /\ recon0 = 0
    /\ SRR0 = NoSolver
    /\ SRR = NoSolver
    /\ recon = 0
    /\ recons = <<>>
    /\ written = <<>>
    /\ trace = <<>>

Raise(kind) ==
    /\ pc' = "aborted"
    /\ err' = kind

\* lines 80-99: choice of the reader. The name Exceptions is bound nowhere in
\* the script, so evaluating Exceptions.IOError raises NameError.
SelectReader ==
    /\ pc = "read_input"
    /\ IF filenames /\ dir_input
       THEN Raise("NameError") /\ UNCHANGED data_reader
       ELSE IF dir_input
       THEN /\ data_reader' = "ImageSlicesDirectoryReader"
            /\ pc' = "read_data"
            /\ UNCHANGED err
       ELSE IF filenames
       THEN /\ data_reader' = "MultipleImagesReader"
            /\ pc' = "read_data"
            /\ UNCHANGED err
       ELSE Raise("NameError") /\ UNCHANGED data_reader
    /\ UNCHANGED <<args, stacks, heap, recon0, SRR0, SRR, recon, recons,
                   written, trace>>

\* lines 101-102
ReadData ==
    /\ pc = "read_data"
    /\ heap' = [i \in 1..n_read |->
                    [content |-> "input", filename |-> StackFilename(i)]]
    /\ stacks' = [i \in 1..n_read |-> i]
    /\ trace' = Append(trace, Event("read_data", data_reader, 0))
    /\ pc' = "recon0"
    /\ UNCHANGED <<args, err, data_reader, recon0, SRR0, SRR, recon, recons,
                   written>>

\* the Stack read by Stack.from_filename(args.reconstruction_space)
SpaceStack == [content |-> "space", filename |-> [pre |-> "space", tag |-> ""]]

\* stacks[i].get_isotropically_resampled_stack() / get_resampled_stack():
\* a new Stack on the reconstruction grid, named like the stack it comes from
Resampled(h, id) == [content |-> "initial", filename |-> h[id].filename]

\* lines 107-116: the initial estimate recon0. With --reconstruction-space
\* the file is read (line 113) before stacks[...] is indexed (line 116).
InitialReconstruction ==
    /\ pc = "recon0"
    /\ IF reconstruction_space = "bad"
       THEN Raise("RuntimeError") /\ UNCHANGED <<heap, recon0>>
       ELSE LET h == IF reconstruction_space = "ok"
                     THEN Append(heap, SpaceStack) ELSE heap
            IN IF target_stack_index >= Len(stacks)
               THEN Raise("IndexError") /\ heap' = h /\ UNCHANGED recon0
               ELSE /\ heap' = Append(h,
                           Resampled(h, stacks[target_stack_index + 1]))
                    /\ recon0' = Len(h) + 1
                    /\ pc' = "construct_tk"
                    /\ UNCHANGED err
    /\ UNCHANGED <<args, data_reader, stacks, SRR0, SRR, recon, recons,
                   written, trace>>

\* lines 118-128: the TikhonovSolver keeps the Stack it is given
ConstructTikhonov ==
    /\ pc = "construct_tk"
    /\ SRR0' = [kind |-> "TK1", reg_type |-> "TK1", state |-> "constructed",
                recon |-> recon0, statistics |-> FALSE, printed |-> FALSE]
    /\ trace' = Append(trace, Event("construct", "TK1", recon0))
    /\ pc' = "run_tk"
    /\ UNCHANGED <<args, err, data_reader, stacks, heap, recon0, SRR, recon,
                   recons, written>>

\* line 129
RunTikhonov ==
    /\ pc = "run_tk"
    /\ heap' = RunReconstruction(heap, SRR0)
    /\ SRR0' = [SRR0 EXCEPT !.state = "ran"]
    /\ trace' = Append(trace, EventV("run_reconstruction", "TK1", SRR0.recon,
                                     heap'[SRR0.recon]))
    /\ pc' = "stats_tk"
    /\ UNCHANGED <<args, err, data_reader, stacks, recon0, SRR, recon, recons,
                   written>>

\* variant: the call of line 130 left out
ComputeStatisticsTikhonov_Skipped ==
    /\ pc = "stats_tk"
    /\ pc' = "print_tk"
    /\ UNCHANGED <<args, err, data_reader, stacks, heap, recon0, SRR0, SRR,
                   recon, recons, written, trace>>

\* line 130
ComputeStatisticsTikhonov ==
    /\ pc = "stats_tk"
    /\ SRR0' = [SRR0 EXCEPT !.statistics = TRUE]
    /\ trace' = Append(trace, Event("compute_statistics", "TK1", SRR0.recon))
    /\ pc' = "print_tk"
    /\ UNCHANGED <<args, err, data_reader, stacks, heap, recon0, SRR, recon,
                   recons, written>>

\* line 131
PrintStatisticsTikhonov ==
    /\ pc = "print_tk"
    /\ SRR0' = [SRR0 EXCEPT !.printed = TRUE]
    /\ trace' = Append(trace, Event("print_statistics", "TK1", SRR0.recon))
    /\ pc' = "get_tk"
    /\ UNCHANGED <<args, err, data_reader, stacks, heap, recon0, SRR, recon,
                   recons, written>>

\* line 133
GetReconstructionTikhonov ==
    /\ pc = "get_tk"
    /\ heap' = GetReconstructionHeap(heap, SRR0)
    /\ recon' = GetReconstructionId(heap, SRR0)
    /\ trace' = Append(trace, EventV("get_reconstruction", "TK1", recon',
                                     heap'[recon']))
    /\ pc' = "name_tk"
    /\ UNCHANGED <<args, err, data_reader, stacks, recon0, SRR0, SRR, recons,
                   written>>

\* line 134
SetFilenameTikhonov ==
    /\ pc = "name_tk"
    /\ heap' = SetFilename(heap, recon, SettingSpecificFilename(SRR0))
    /\ trace' = Append(trace, Event("set_filename", "TK1", recon))
    /\ pc' = "write_tk"
    /\ UNCHANGED <<args, err, data_reader, stacks, recon0, SRR0, SRR, recon,
                   recons, written>>

\* Stack.write(): the file carries the Stack's filename and image
Write(w, h, id) == Append(w, [obj |-> id, filename |-> h[id].filename,
                              content |-> h[id].content])

\* line 135
WriteTikhonov ==
    /\ pc = "write_tk"
    /\ written' = Write(written, heap, recon)
    /\ trace' = Append(trace, Event("write", "TK1", recon))
    /\ pc' = "list"
    /\ UNCHANGED <<args, err, data_reader, stacks, heap, recon0, SRR0, SRR,
                   recon, recons>>

\* lines 138-141
BuildList ==
    /\ pc = "list"
    /\ recons' = <<recon>> \o stacks
    /\ pc' = "branch"
    /\ UNCHANGED <<args, err, data_reader, stacks, heap, recon0, SRR0, SRR,
                   recon, written, trace>>

\* second solver, given the Stack it is to start from
SecondSolver(kind, seed) ==
    [kind |-> kind, reg_type |-> IF kind = "PD" THEN reg_type ELSE "TV",
     state |-> "constructed", recon |-> seed, statistics |-> FALSE,
     printed |-> FALSE]

\* variant: SRR0.get_reconstruction() handed over without Stack.from_stack
Seed_NoCopy(h) ==
    [heap |-> GetReconstructionHeap(h, SRR0),
     id |-> GetReconstructionId(h, SRR0)]

\* the argument st.Stack.from_stack(SRR0.get_reconstruction()) of lines 146
\* and 167: the heap after the call and the new Stack
Seed(h) ==
    LET h1 == GetReconstructionHeap(h, SRR0)
    IN [heap |-> FromStack(h1, GetReconstructionId(h, SRR0)),
        id |-> Len(h1) + 1]

\* variant: ADMM chosen for huber as well
ConstructADMM_AnyTV ==
    /\ pc = "branch"
    /\ reg_type \in {"TV", "huber"} /\ tv_solver = "ADMM"
    /\ heap' = Seed(heap).heap
    /\ SRR' = SecondSolver("ADMM", Seed(heap).id)
    /\ trace' = Append(trace, Event("construct", "ADMM", Seed(heap).id))
    /\ pc' = "run_2"
    /\ UNCHANGED <<args, err, data_reader, stacks, recon0, SRR0, recon,
                   recons, written>>

\* lines 143-154
ConstructADMM ==
    /\ pc = "branch"
    /\ reg_type = "TV" /\ tv_solver = "ADMM"
    /\ heap' = Seed(heap).heap
    /\ SRR' = SecondSolver("ADMM", Seed(heap).id)
    /\ trace' = Append(trace, Event("construct", "ADMM", Seed(heap).id))
    /\ pc' = "run_2"
    /\ UNCHANGED <<args, err, data_reader, stacks, recon0, SRR0, recon,
                   recons, written>>

\* variant: the PrimalDualSolver given SRR0.get_reconstruction() itself
ConstructPrimalDual_NoCopy ==
    /\ pc = "branch"
    /\ ~(reg_type = "TV" /\ tv_solver = "ADMM")
    /\ reg_type \in {"TV", "huber"} /\ tv_solver = "PD"
    /\ heap' = Seed_NoCopy(heap).heap
    /\ SRR' = SecondSolver("PD", Seed_NoCopy(heap).id)
    /\ trace' = Append(trace, Event("construct", "PD", Seed_NoCopy(heap).id))
    /\ pc' = "run_2"
    /\ UNCHANGED <<args, err, data_reader, stacks, recon0, SRR0, recon,
                   recons, written>>

\* lines 163-176
ConstructPrimalDual ==
    /\ pc = "branch"
    /\ ~(reg_type = "TV" /\ tv_solver = "ADMM")
    /\ reg_type \in {"TV", "huber"} /\ tv_solver = "PD"
    /\ heap' = Seed(heap).heap
    /\ SRR' = SecondSolver("PD", Seed(heap).id)
    /\ trace' = Append(trace, Event("construct", "PD", Seed(heap).id))
    /\ pc' = "run_2"
    /\ UNCHANGED <<args, err, data_reader, stacks, recon0, SRR0, recon,
                   recons, written>>

\* neither condition of lines 143 and 163 holds
NoSecondSolver ==
    /\ pc = "branch"
    /\ ~(reg_type = "TV" /\ tv_solver = "ADMM")
    /\ ~(reg_type \in {"TV", "huber"} /\ tv_solver = "PD")
    /\ pc' = "show"
    /\ UNCHANGED <<args, err, data_reader, stacks, heap, recon0, SRR0, SRR,
                   recon, recons, written, trace>>

\* lines 155 and 177
RunSecond ==
    /\ pc = "run_2"
    /\ heap' = RunReconstruction(heap, SRR)
    /\ SRR' = [SRR EXCEPT !.state = "ran"]
    /\ trace' = Append(trace, EventV("run_reconstruction", SRR.kind, SRR.recon,
                                     heap'[SRR.recon]))
    /\ pc' = "print_2"
    /\ UNCHANGED <<args, err, data_reader, stacks, recon0, SRR0, recon,
                   recons, written>>

\* lines 156 and 178
PrintStatisticsSecond ==
    /\ pc = "print_2"
    /\ SRR' = [SRR EXCEPT !.printed = TRUE]
    /\ trace' = Append(trace, Event("print_statistics", SRR.kind, SRR.recon))
    /\ pc' = "get_2"
    /\ UNCHANGED <<args, err, data_reader, stacks, heap, recon0, SRR0, recon,
                   recons, written>>

\* lines 157 and 179
GetReconstructionSecond ==
    /\ pc = "get_2"
    /\ heap' = GetReconstructionHeap(heap, SRR)
    /\ recon' = GetReconstructionId(heap, SRR)
    /\ trace' = Append(trace, EventV("get_reconstruction", SRR.kind, recon',
                                     heap'[recon']))
    /\ pc' = "name_2"
    /\ UNCHANGED <<args, err, data_reader, stacks, recon0, SRR0, SRR, recons,
                   written>>

\* variant: the filename of the first solver reused
SetFilenameSecond_Tikhonov ==
    /\ pc = "name_2"
    /\ heap' = SetFilename(heap, recon, SettingSpecificFilename(SRR0))
    /\ trace' = Append(trace, Event("set_filename", SRR.kind, recon))
    /\ pc' = "insert_2"
    /\ UNCHANGED <<args, err, data_reader, stacks, recon0, SRR0, SRR, recon,
                   recons, written>>

\* lines 158 and 180
SetFilenameSecond ==
    /\ pc = "name_2"
    /\ heap' = SetFilename(heap, recon, SettingSpecificFilename(SRR))
    /\ trace' = Append(trace, Event("set_filename", SRR.kind, recon))
    /\ pc' = "insert_2"
    /\ UNCHANGED <<args, err, data_reader, stacks, recon0, SRR0, SRR, recon,
                   recons, written>>

\* lines 159 and 181
InsertSecond ==
    /\ pc = "insert_2"
    /\ recons' = <<recon>> \o recons
    /\ pc' = "write_2"
    /\ UNCHANGED <<args, err, data_reader, stacks, heap, recon0, SRR0, SRR,
                   recon, written, trace>>

\* lines 161 and 183
WriteSecond ==
    /\ pc = "write_2"
    /\ written' = Write(written, heap, recon)
    /\ trace' = Append(trace, Event("write", SRR.kind, recon))
    /\ pc' = "show"
    /\ UNCHANGED <<args, err, data_reader, stacks, heap, recon0, SRR0, SRR,
                   recon, recons>>

\* lines 185-197: sitkh.show_stacks(recons) only reads the stacks
ShowStacks ==
    /\ pc = "show"
    /\ trace' = Append(trace, Event("show_stacks", "driver", Len(recons)))
    /\ pc' = "done"
    /\ UNCHANGED <<args, err, data_reader, stacks, heap, recon0, SRR0, SRR,
                   recon, recons, written>>

\* ------------------------------------------------- N4BiasFieldCorrection
\* filenames the clients' stacks may carry; two stacks may share one
N4Filenames == {"a", "b"}

\* None
NoStack == [image |-> [src |-> 0, corrected |-> FALSE], mask |-> 0,
            filename |-> ""]

N4File(base, suffix, data) == [base |-> base, suffix |-> suffix, data |-> data]

\* sitk.WriteImage(image, path): replaces the file of that name
WriteImage(d, base, suffix, data) ==
    {f \in d : ~(f.base = base /\ f.suffix = suffix)}
        \cup {N4File(base, suffix, data)}

\* variant: the directory left as it is
ClearDirectory_Keep(d) == d

\* ph.clear_directory(self._dir_tmp)
ClearDirectory(d) == {}

N4Log(op, base, mask, out) == [op |-> op, base |-> base, mask |-> mask,
                               out |-> out]

\* runN4BiasFieldCorrectionImageFilter --f <f> [--fmask <f>_mask] --tout <dir>
\* --m <m>: on success leaves <m>_corrected.nii.gz, the correction of the
\* image in <f>.nii.gz; otherwise leaves the directory as it is
ExecuteCommand(d, cmd, out) ==
    IF out = "ok"
    THEN LET in == CHOOSE f \in d : f.base = cmd.f /\ f.suffix = ".nii.gz"
         IN WriteImage(d, cmd.m, "_corrected.nii.gz",
                       [src |-> in.data.src, corrected |-> TRUE])
    ELSE d

\* variant: the corrected Stack built without the filename of the input
CorrectedStack_Unnamed(stack, image) ==
    [image |-> image, mask |-> stack.mask, filename |-> ""]

\* st.Stack.from_sitk_image(image, filename, mask) of line 78
CorrectedStack(stack, image) ==
    [image |-> image, mask |-> stack.mask, filename |-> stack.filename]

\* outcomes of ph.execute_command(cmd): the filter wrote its output, the
\* filter wrote nothing, the helper raised
Outcomes == {"ok", "no_output", "raise"}

\* the script is not running while a client uses the object
DriverIdle ==
    /\ dir_input = FALSE /\ filenames = FALSE /\ reconstruction_space = "none"
    /\ target_stack_index = 0 /\ reg_type = "TK1" /\ tv_solver = "PD"
    /\ n_read = 0 /\ getter_copies = FALSE /\ pc = "idle" /\ err = "none"
    /\ data_reader = "none" /\ stacks = <<>> /\ heap = <<>> /\ recon0 = 0
    /\ SRR0 = NoSolver /\ SRR = NoSolver /\ recon = 0 /\ recons = <<>>
    /\ written = <<>> /\ trace = <<>>

InitN4 ==
    /\ DriverIdle
    /\ n4_stack \in 0..NumN4Stacks
    /\ n4_use_mask \in BOOLEAN
    /\ n4_stack_corrected = NoStack
    /\ n4_dir \in {{}} \cup
           {{N4File(b, "_corrected.nii.gz", [src |-> 0, corrected |-> TRUE])} :
               b \in N4Filenames}
    /\ \E fn \in [1..NumN4Stacks -> N4Filenames] :
           n4_objs = [i \in 1..NumN4Stacks |->
                         [image |-> [src |-> i, corrected |-> FALSE],
                          mask |-> i, filename |-> fn[i]]]
    /\ n4_result = "constructed"
    /\ n4_got = NoStack
    /\ n4_log = <<>>
    /\ n4_last_ok = 0

\* variant: a new stack discards the stored correction
set_stack_Reset(stack) ==
    /\ n4_stack' = stack
    /\ n4_stack_corrected' = NoStack
    /\ n4_result' = "set"
    /\ UNCHANGED <<n4_use_mask, n4_dir, n4_objs, n4_got, n4_log, n4_last_ok>>

\* lines 42-43
set_stack(stack) ==
    /\ n4_stack' = stack
    /\ n4_result' = "set"
    /\ UNCHANGED <<n4_use_mask, n4_stack_corrected, n4_dir, n4_objs, n4_got,
                   n4_log, n4_last_ok>>

\* lines 45-46
get_bias_field_corrected_stack ==
    /\ n4_got' = n4_stack_corrected
    /\ n4_result' = "got"
    /\ UNCHANGED <<n4_stack, n4_use_mask, n4_stack_corrected, n4_dir, n4_objs,
                   n4_log, n4_last_ok>>

\* lines 49-78
run_bias_field_correction(out) ==
    LET d0 == ClearDirectory(n4_dir)
        l0 == <<N4Log("clear", "", FALSE, "")>>
    IN IF n4_stack = 0
       THEN \* line 54: None has no get_filename()
            /\ n4_dir' = d0
            /\ n4_log' = l0
            /\ n4_result' = "AttributeError"
            /\ UNCHANGED <<n4_stack_corrected, n4_last_ok>>
       ELSE LET stack == n4_objs[n4_stack]
                filename_out == stack.filename
                d1 == WriteImage(d0, filename_out, ".nii.gz", stack.image)
                l1 == Append(l0, N4Log("write_image", filename_out, FALSE, ""))
                d2 == IF n4_use_mask
                      THEN WriteImage(d1, filename_out, "_mask.nii.gz",
                                      [src |-> stack.mask, corrected |-> FALSE])
                      ELSE d1
                l2 == IF n4_use_mask
                      THEN Append(l1, N4Log("write_mask", filename_out, TRUE, ""))
                      ELSE l1
                cmd == [f |-> filename_out, fmask |-> n4_use_mask,
                        m |-> filename_out]
                d3 == ExecuteCommand(d2, cmd, out)
                l3 == Append(l2, N4Log("execute", cmd.f, cmd.fmask, out))
                found == {f \in d3 : /\ f.base = filename_out
                                     /\ f.suffix = "_corrected.nii.gz"}
            IN /\ n4_dir' = d3
               /\ n4_log' = l3
               /\ IF out = "raise"
                  THEN /\ n4_result' = "CommandError"
                       /\ UNCHANGED <<n4_stack_corrected, n4_last_ok>>
                  ELSE IF found = {}
                  THEN \* line 71: sitk.ReadImage of a missing file
                       /\ n4_result' = "RuntimeError"
                       /\ UNCHANGED <<n4_stack_corrected, n4_last_ok>>
                  ELSE LET stack_corrected_sitk == (CHOOSE f \in found : TRUE).data
                       IN /\ n4_stack_corrected' =
                                 CorrectedStack(stack, stack_corrected_sitk)
                          /\ n4_result' = "ok"
                          /\ n4_last_ok' = n4_stack

RunBiasFieldCorrection ==
    /\ \E out \in Outcomes : run_bias_field_correction(out)
    /\ UNCHANGED <<n4_stack, n4_use_mask, n4_objs, n4_got>>

SetStack == \E s \in 1..NumN4Stacks : set_stack(s)

GetBiasFieldCorrectedStack == get_bias_field_corrected_stack

\* ---------------------------------------------------------- specifications
\* one statement of the script; no N4BiasFieldCorrection object is touched
DriverNext ==
    \/ SelectReader /\ UNCHANGED n4_vars
    \/ ReadData /\ UNCHANGED n4_vars
    \/ InitialReconstruction /\ UNCHANGED n4_vars
    \/ ConstructTikhonov /\ UNCHANGED n4_vars
    \/ RunTikhonov /\ UNCHANGED n4_vars
    \/ ComputeStatisticsTikhonov /\ UNCHANGED n4_vars
    \/ PrintStatisticsTikhonov /\ UNCHANGED n4_vars
    \/ GetReconstructionTikhonov /\ UNCHANGED n4_vars
    \/ SetFilenameTikhonov /\ UNCHANGED n4_vars
    \/ WriteTikhonov /\ UNCHANGED n4_vars
    \/ BuildList /\ UNCHANGED n4_vars
    \/ ConstructADMM /\ UNCHANGED n4_vars
    \/ ConstructPrimalDual /\ UNCHANGED n4_vars
    \/ NoSecondSolver /\ UNCHANGED n4_vars
    \/ RunSecond /\ UNCHANGED n4_vars
    \/ PrintStatisticsSecond /\ UNCHANGED n4_vars
    \/ GetReconstructionSecond /\ UNCHANGED n4_vars
    \/ SetFilenameSecond /\ UNCHANGED n4_vars
    \/ InsertSecond /\ UNCHANGED n4_vars
    \/ WriteSecond /\ UNCHANGED n4_vars
    \/ ShowStacks /\ UNCHANGED n4_vars

SpecDriver == InitDriver /\ [][DriverNext]_vars

\* a client calls the methods of one N4BiasFieldCorrection object in any order
N4Next ==
    \/ SetStack /\ UNCHANGED drv_vars
    \/ GetBiasFieldCorrectedStack /\ UNCHANGED drv_vars
    \/ RunBiasFieldCorrection /\ UNCHANGED drv_vars

SpecN4 == InitN4 /\ [][N4Next]_vars

\* ------------------------------------------------------------- properties
\* positions of the calls of op for solver who
Calls(op, who) == {i \in DOMAIN trace : trace[i].op = op /\ trace[i].who = who}

SecondKinds == {"ADMM", "PD"}

SolverOf(who) == IF who = "TK1" THEN SRR0 ELSE SRR

Started == pc \notin {"read_input", "idle"}

\* C1: if dir_input and filenames are both given or both missing, the run
\* aborts with a configuration error before read_data(), before any solver is
\* constructed and before anything is written; if exactly one is given no
\* error is raised by the selection and the matching reader is used.
C1_ConfigurationError ==
    Started =>
        IF dir_input = filenames
        THEN /\ pc = "aborted"
             /\ err = "ConfigurationError"
             /\ trace = <<>> /\ written = <<>>
             /\ SRR0 = NoSolver /\ SRR = NoSolver
        ELSE /\ err \notin {"ConfigurationError", "NameError"}
             /\ data_reader = IF dir_input THEN "ImageSlicesDirectoryReader"
                                            ELSE "MultipleImagesReader"

\* C2 as stated: with reg_type TV or huber a second solver runs for either
\* tv_solver; with TK1 only the TikhonovSolver runs.
C2_Original ==
    pc = "done" =>
        IF reg_type \in {"TV", "huber"}
        THEN SRR.kind \in SecondKinds /\ SRR.state = "ran"
        ELSE SRR = NoSolver

\* the second solver lines 143 and 163 select
Selected ==
    IF reg_type = "TV" /\ tv_solver = "ADMM" THEN "ADMM"
    ELSE IF reg_type \in {"TV", "huber"} /\ tv_solver = "PD" THEN "PD"
    ELSE "none"

\* C2: a second solver, seeded with the Tikhonov solution, runs exactly for
\* (TV, ADMM) -> ADMMSolver and (TV, PD), (huber, PD) -> PrimalDualSolver; for
\* (huber, ADMM) and for TK1 only the TikhonovSolver runs.
C2_Chaining ==
    /\ SRR.kind \in {"none", Selected}
    /\ pc = "run_2" => /\ SRR.kind = Selected
                       /\ heap[SRR.recon].content = "TK1"
    /\ pc = "done" => /\ SRR0.state = "ran"
                      /\ SRR.kind = Selected
                      /\ SRR.kind # "none" => SRR.state = "ran"

C2_Witness ==
    /\ pc = "done" /\ reg_type = "huber" /\ tv_solver = "PD"
    /\ SRR.kind = "PD" /\ SRR.state = "ran"

\* C3: an ADMMSolver or PrimalDualSolver is constructed only after the
\* TikhonovSolver's run_reconstruction() has returned, and the Stack it is
\* given is a new object equal to the Stack the TikhonovSolver holds, which
\* carries the Tikhonov solution, and is neither recon0 nor that Stack itself.
C3_WarmStart ==
    /\ \A k \in SecondKinds : \A i \in Calls("construct", k) :
           /\ \E j \in Calls("run_reconstruction", "TK1") : j < i
           /\ trace[i].obj \notin {recon0, SRR0.recon}
    /\ SRR.state # "none" =>
           /\ SRR0.state = "ran"
           /\ SRR.recon \notin {recon0, SRR0.recon}
    /\ pc = "run_2" =>
           /\ heap[SRR.recon] = heap[SRR0.recon]
           /\ heap[SRR.recon].content = "TK1"

C3_Witness ==
    /\ pc = "run_2" /\ SRR.kind = "ADMM" /\ SRR.state = "constructed"
    /\ heap[SRR.recon].content = "TK1"

\* C4 as stated: for every solver, its reconstruction is written after
\* compute_statistics(), which comes after run_reconstruction().
C4_Original ==
    \A k \in {"TK1"} \cup SecondKinds : \A w \in Calls("write", k) :
        \E r \in Calls("run_reconstruction", k) :
            \E c \in Calls("compute_statistics", k) : r < c /\ c < w

\* C4: for every solver the order is run_reconstruction() ->
\* print_statistics() -> write of its reconstruction; compute_statistics() is
\* called, between the run and the print, for the TikhonovSolver only.
C4_Order ==
    /\ \A k \in {"TK1"} \cup SecondKinds : \A w \in Calls("write", k) :
           \E r \in Calls("run_reconstruction", k) :
               \E q \in Calls("print_statistics", k) :
                   /\ r < q /\ q < w
                   /\ k = "TK1" =>
                          \E c \in Calls("compute_statistics", k) :
                              r < c /\ c < q
    /\ \A k \in SecondKinds : Calls("compute_statistics", k) = {}
    /\ SRR.statistics = FALSE

C4_Witness ==
    /\ pc = "done" /\ SRR.state = "ran"
    /\ Calls("write", SRR.kind) # {} /\ Calls("write", "TK1") # {}

C6_ZeroStacks ==
    (n_read = 0 /\ pc \notin {"read_input", "read_data", "recon0", "idle"}
        /\ trace # <<>>) =>
            /\ pc = "aborted"
            /\ err = "ConfigurationError"
            /\ SRR0 = NoSolver /\ SRR = NoSolver /\ written = <<>>

\* C9: every file written carries the setting-specific filename and the
\* image of the solver it is written for, the filename being set before the
\* write; the first is the Tikhonov reconstruction, a second one is written
\* exactly when a second solver ran.
C9_Writes ==
    /\ Len(written) <= 2
    /\ \A i \in DOMAIN written :
           LET s == IF i = 1 THEN SRR0 ELSE SRR
           IN /\ s.state = "ran"
              /\ written[i].content = s.kind
              /\ written[i].filename = SettingSpecificFilename(s)
              /\ \E n \in Calls("set_filename", s.kind) :
                     \E w \in Calls("write", s.kind) :
                         /\ n < w
                         /\ trace[n].obj = written[i].obj
                         /\ trace[w].obj = written[i].obj
    /\ pc \in {"list", "branch", "run_2", "print_2", "get_2", "name_2",
                "insert_2", "write_2"} => Len(written) = 1
    /\ pc \in {"show", "done"} =>
           Len(written) = IF SRR.state = "ran" THEN 2 ELSE 1

C9_Witness ==
    /\ pc = "done" /\ Len(written) = 2
    /\ written[2].filename = SettingSpecificFilename(SRR)
    /\ written[1].filename = SettingSpecificFilename(SRR0)

\* what the last run_bias_field_correction() did
Did(op) == {i \in DOMAIN n4_log : n4_log[i].op = op}

N4Errors == {"AttributeError", "CommandError", "RuntimeError"}

\* the filter of the last run left without writing its output
FilterFailed ==
    /\ n4_result \in N4Errors \cup {"ok"}
    /\ \E i \in Did("execute") : n4_log[i].out # "ok"

\* C7: a run in which the external filter fails or writes no output ends in
\* an error and changes neither the stack that was set nor the stored
\* corrected stack.
C7_FailureConfined ==
    [][FilterFailed' =>
          /\ n4_result' \in N4Errors
          /\ n4_stack_corrected' = n4_stack_corrected
          /\ n4_objs' = n4_objs
          /\ n4_stack' = n4_stack]_vars

C7_Witness ==
    /\ FilterFailed /\ n4_result = "RuntimeError"
    /\ n4_stack_corrected # NoStack
    /\ n4_stack # n4_last_ok

\* files a successful run on stack leaves in the temporary directory
FilesOfRun(stack) ==
    {N4File(stack.filename, ".nii.gz", stack.image),
     N4File(stack.filename, "_corrected.nii.gz",
            [src |-> stack.image.src, corrected |-> TRUE])}
    \cup IF n4_use_mask
         THEN {N4File(stack.filename, "_mask.nii.gz",
                      [src |-> stack.mask, corrected |-> FALSE])}
         ELSE {}

\* C8: a successful run stores a new Stack with the filename of the input
\* stack and leaves the input stack unchanged; the mask file is written and
\* passed to the filter iff use_mask; the directory is cleared before the
\* input files are written and before the filter is invoked.
C8_SuccessfulRun ==
    [][n4_result' = "ok" =>
          /\ n4_objs' = n4_objs /\ n4_stack' = n4_stack
          /\ n4_stack_corrected'.filename = n4_objs[n4_stack].filename
          /\ n4_stack_corrected'.image.corrected
          /\ n4_stack_corrected'.image # n4_objs[n4_stack].image
          /\ (Did("write_mask")' # {}) <=> n4_use_mask
          /\ \A i \in Did("execute")' : n4_log'[i].mask <=> n4_use_mask
          /\ Did("clear")' = {1}
          /\ \A i \in Did("write_image")' \cup Did("write_mask")' :
                 /\ 1 < i
                 /\ \A j \in Did("execute")' : i < j
          /\ Did("write_image")' # {} /\ Did("execute")' # {}
          /\ n4_dir' = FilesOfRun(n4_objs[n4_stack])]_vars

C8_Witness ==
    /\ n4_result = "ok" /\ ~n4_use_mask
    /\ n4_stack_corrected.filename = n4_objs[n4_stack].filename
    /\ Did("write_mask") = {} /\ Did("execute") # {}

\* the correction of stack k, None for k = 0
CorrectionOf(k) ==
    IF k = 0 THEN NoStack
    ELSE [image |-> [src |-> n4_objs[k].image.src, corrected |-> TRUE],
          mask |-> n4_objs[k].mask, filename |-> n4_objs[k].filename]

\* C10: get_bias_field_corrected_stack() returns None until a run has
\* succeeded and afterwards the correction of the stack that was set at the
\* most recent successful run, whatever set_stack() calls came in between.
C10_Getter ==
    /\ n4_stack_corrected = CorrectionOf(n4_last_ok)
    /\ n4_result = "got" => n4_got = CorrectionOf(n4_last_ok)

C10_Witness ==
    /\ n4_result = "got" /\ n4_last_ok # 0 /\ n4_stack # n4_last_ok
    /\ n4_got = CorrectionOf(n4_last_ok)
    /\ n4_objs[n4_stack].filename = n4_objs[n4_last_ok].filename
====
